---- MODULE Spec2Model ----
(***************************************************************************)
(* Model of the Soroban multi-signature contract                           *)
(* (contracts/multi_sig/src/multisig.rs).                                  *)
(*                                                                         *)
(* The contract's instance storage is the record `storage`, one field per  *)
(* DataKey of types.rs.  Every public entry point is an operator that      *)
(* takes the storage (and the ledger timestamp where the code reads it)    *)
(* and returns the storage it leaves behind, the error kind it raised      *)
(* ("Ok" when it returned normally) and the external calls it made.  The   *)
(* checks are translated in the order the code performs them.              *)
(***************************************************************************)
EXTENDS Integers, Sequences, FiniteSets, TLC

VARIABLES storage, now, transfers, mutations, failedTransfers

vars == <<storage, now, transfers, mutations, failedTransfers>>

(***************************************************************************)
(* Bounds and input samples.                                               *)
(***************************************************************************)
MaxProposals == 1
MaxChanges == 3
MaxIds == 3
MaxPairs == 2

Ids == {"s1", "s2", "s3"}
InitLists == {<<>>, <<"s1", "s1">>, <<"s1", "s2">>}
Thresholds == 0 .. 3
Amounts == {-1, 0, 1000}
Ttls == {3599, 3600, 2592001}
ChangeTypes == {"add", "remove", "swap"}
Times == {0, 3600, 3601}
CallIds(cap) == 1 .. (cap + 1)
AllIds == 1 .. ((IF MaxProposals > MaxChanges THEN MaxProposals ELSE MaxChanges) + 1)

(***************************************************************************)
(* Program constants.                                                      *)
(***************************************************************************)
MIN_EXPIRY_SECONDS == 3600
MAX_EXPIRY_SECONDS == 2592000

Token == "token"
Recipient == "recipient"
Reason == "reason"
ContractAddress == "multisig"

(***************************************************************************)
(* u32 arithmetic on SignerCount.  A u32 value v is held as v when         *)
(* v < 2^31 and as v - 2^32 otherwise (two's complement), so that the      *)
(* wrapped result of 0 - 1, 4294967295, is the value -1.                   *)
(***************************************************************************)
U32Lt(a, b) == IF (a < 0) = (b < 0) THEN a < b ELSE b < 0

U32Le(a, b) == a = b \/ U32Lt(a, b)

Range(s) == {s[i] : i \in 1 .. Len(s)}

(***************************************************************************)
(* Results of a call.                                                      *)
(***************************************************************************)
Fail(st, kind) == [st |-> st, res |-> kind, calls |-> <<>>]

Done(st) == [st |-> st, res |-> "Ok", calls |-> <<>>]

EmptyStorage ==
    [initialized |-> FALSE, signerCount |-> 0, threshold |-> 0, nonce |-> 0,
     proposalCount |-> 0, signers |-> {},
     proposals |-> <<>>, approvals |-> <<>>, executed |-> {},
     scProposals |-> <<>>, scApprovals |-> <<>>, scExecuted |-> {}]

(***************************************************************************)
(* initialize                                                              *)
(***************************************************************************)
HasDuplicate(signers) ==
    \E i \in 1 .. Len(signers) : \E j \in (i + 1) .. Len(signers) :
        signers[i] = signers[j]

(* Faulty variant: initialize without the AlreadyInitialized guard. *)
initialize_noguard(st, signers, threshold) ==
    IF Len(signers) = 0 THEN Fail(st, "EmptySignersList")
    ELSE IF threshold = 0 THEN Fail(st, "InvalidThreshold")
    ELSE IF threshold > Len(signers) THEN Fail(st, "ThresholdExceedsSigners")
    ELSE IF HasDuplicate(signers) THEN Fail(st, "DuplicateSigner")
    ELSE Done([st EXCEPT !.initialized = TRUE,
                         !.signerCount = Len(signers),
                         !.threshold = threshold,
                         !.nonce = 0,
                         !.signers = st.signers \cup Range(signers)])

(* Faulty variant: initialize that scans for duplicates before it looks at  *)
(* the threshold.                                                          *)
initialize_dupfirst(st, signers, threshold) ==
    IF st.initialized THEN Fail(st, "AlreadyInitialized")
    ELSE IF Len(signers) = 0 THEN Fail(st, "EmptySignersList")
    ELSE IF HasDuplicate(signers) THEN Fail(st, "DuplicateSigner")
    ELSE IF threshold = 0 THEN Fail(st, "InvalidThreshold")
    ELSE IF threshold > Len(signers) THEN Fail(st, "ThresholdExceedsSigners")
    ELSE Done([st EXCEPT !.initialized = TRUE,
                         !.signerCount = Len(signers),
                         !.threshold = threshold,
                         !.nonce = 0,
                         !.signers = st.signers \cup Range(signers)])

(* Faulty variant: initialize that requires every signer's approval,       *)
(* storing the list length as the threshold.                               *)
initialize_fullthreshold(st, signers, threshold) ==
    IF st.initialized THEN Fail(st, "AlreadyInitialized")
    ELSE IF Len(signers) = 0 THEN Fail(st, "EmptySignersList")
    ELSE IF threshold = 0 THEN Fail(st, "InvalidThreshold")
    ELSE IF threshold > Len(signers) THEN Fail(st, "ThresholdExceedsSigners")
    ELSE IF HasDuplicate(signers) THEN Fail(st, "DuplicateSigner")
    ELSE Done([st EXCEPT !.initialized = TRUE,
                         !.signerCount = Len(signers),
                         !.threshold = Len(signers),
                         !.nonce = 0,
                         !.signers = st.signers \cup Range(signers)])

initialize(st, signers, threshold) ==
    IF st.initialized THEN Fail(st, "AlreadyInitialized")
    ELSE IF Len(signers) = 0 THEN Fail(st, "EmptySignersList")
    ELSE IF threshold = 0 THEN Fail(st, "InvalidThreshold")
    ELSE IF threshold > Len(signers) THEN Fail(st, "ThresholdExceedsSigners")
    ELSE IF HasDuplicate(signers) THEN Fail(st, "DuplicateSigner")
    ELSE Done([st EXCEPT !.initialized = TRUE,
                         !.signerCount = Len(signers),
                         !.threshold = threshold,
                         !.nonce = 0,
                         !.signers = st.signers \cup Range(signers)])

(***************************************************************************)
(* Approval collections: Vec<ProposalApproval>, Vec<SignerChangeApproval>. *)
(* An entry is held by its signer field; approved_at, the timestamp the    *)
(* code stores beside it, is read by no entry point and is left out.       *)
(***************************************************************************)
HasApproved(approvals, who) ==
    \E i \in 1 .. Len(approvals) : approvals[i].signer = who

FirstIndex(approvals, who) ==
    CHOOSE i \in 1 .. Len(approvals) :
        /\ approvals[i].signer = who
        /\ \A j \in 1 .. (i - 1) : approvals[j].signer # who

RemoveAt(s, i) == SubSeq(s, 1, i - 1) \o SubSeq(s, i + 1, Len(s))

Expired(t, proposal) == t > proposal.expires_at

(***************************************************************************)
(* Signer-change workflow                                                  *)
(***************************************************************************)
(* Faulty variant: propose_signer_change that does not look the target up  *)
(* in the registry.                                                        *)
propose_signer_change_anytarget(st, t, checks, proposer, change_type, signer, expires_in_seconds) ==
    IF ~st.initialized THEN Fail(st, "NotInitialized")
    ELSE IF expires_in_seconds < MIN_EXPIRY_SECONDS THEN Fail(st, "InvalidExpiryTime")
    ELSE IF expires_in_seconds > MAX_EXPIRY_SECONDS THEN Fail(st, "InvalidExpiryTime")
    ELSE IF proposer \notin st.signers THEN Fail(st, "UnknownSigner")
    ELSE IF change_type # "add" /\ change_type # "remove" THEN Fail(st, "InvalidProposal")
    ELSE IF change_type = "remove" /\ st.signerCount = 0 /\ checks
         THEN Fail(st, "ArithmeticOverflow")
    ELSE IF change_type = "remove" /\ U32Lt(st.signerCount - 1, st.threshold)
         THEN Fail(st, "ThresholdExceedsSigners")
    ELSE LET proposal_id == st.proposalCount + 1
             proposal == [id |-> proposal_id, proposer |-> proposer,
                          change_type |-> change_type, signer |-> signer,
                          created_at |-> t, expires_at |-> t + expires_in_seconds,
                          executed |-> FALSE]
         IN  [st |-> [st EXCEPT !.proposalCount = proposal_id,
                                !.scProposals = (proposal_id :> proposal) @@ @,
                                !.scApprovals = (proposal_id :> <<>>) @@ @],
              res |-> "Ok", calls |-> <<>>, value |-> proposal_id]

(* Faulty variant: propose_signer_change that numbers signer-change         *)
(* proposals with a counter of their own.                                  *)
propose_signer_change_owncounter(st, t, checks, proposer, change_type, signer, expires_in_seconds) ==
    IF ~st.initialized THEN Fail(st, "NotInitialized")
    ELSE IF expires_in_seconds < MIN_EXPIRY_SECONDS THEN Fail(st, "InvalidExpiryTime")
    ELSE IF expires_in_seconds > MAX_EXPIRY_SECONDS THEN Fail(st, "InvalidExpiryTime")
    ELSE IF proposer \notin st.signers THEN Fail(st, "UnknownSigner")
    ELSE IF change_type # "add" /\ change_type # "remove" THEN Fail(st, "InvalidProposal")
    ELSE IF change_type = "add" /\ signer \in st.signers THEN Fail(st, "DuplicateSigner")
    ELSE IF change_type = "remove" /\ signer \notin st.signers THEN Fail(st, "SignerNotFound")
    ELSE IF change_type = "remove" /\ st.signerCount = 0 /\ checks
         THEN Fail(st, "ArithmeticOverflow")
    ELSE IF change_type = "remove" /\ U32Lt(st.signerCount - 1, st.threshold)
         THEN Fail(st, "ThresholdExceedsSigners")
    ELSE LET proposal_id == Cardinality(DOMAIN st.scProposals) + 1
             proposal == [id |-> proposal_id, proposer |-> proposer,
                          change_type |-> change_type, signer |-> signer,
                          created_at |-> t, expires_at |-> t + expires_in_seconds,
                          executed |-> FALSE]
         IN  [st |-> [st EXCEPT !.scProposals = (proposal_id :> proposal) @@ @,
                                !.scApprovals = (proposal_id :> <<>>) @@ @],
              res |-> "Ok", calls |-> <<>>, value |-> proposal_id]

propose_signer_change(st, t, checks, proposer, change_type, signer, expires_in_seconds) ==
    IF ~st.initialized THEN Fail(st, "NotInitialized")
    ELSE IF expires_in_seconds < MIN_EXPIRY_SECONDS THEN Fail(st, "InvalidExpiryTime")
    ELSE IF expires_in_seconds > MAX_EXPIRY_SECONDS THEN Fail(st, "InvalidExpiryTime")
    ELSE IF proposer \notin st.signers THEN Fail(st, "UnknownSigner")
    ELSE IF change_type # "add" /\ change_type # "remove" THEN Fail(st, "InvalidProposal")
    ELSE IF change_type = "add" /\ signer \in st.signers THEN Fail(st, "DuplicateSigner")
    ELSE IF change_type = "remove" /\ signer \notin st.signers THEN Fail(st, "SignerNotFound")
    ELSE IF change_type = "remove" /\ st.signerCount = 0 /\ checks
         THEN Fail(st, "ArithmeticOverflow")
    ELSE IF change_type = "remove" /\ U32Lt(st.signerCount - 1, st.threshold)
         THEN Fail(st, "ThresholdExceedsSigners")
    ELSE LET proposal_id == st.proposalCount + 1
             proposal == [id |-> proposal_id, proposer |-> proposer,
                          change_type |-> change_type, signer |-> signer,
                          created_at |-> t, expires_at |-> t + expires_in_seconds,
                          executed |-> FALSE]
         IN  [st |-> [st EXCEPT !.proposalCount = proposal_id,
                                !.scProposals = (proposal_id :> proposal) @@ @,
                                !.scApprovals = (proposal_id :> <<>>) @@ @],
              res |-> "Ok", calls |-> <<>>, value |-> proposal_id]

(* Faulty variant: approve_signer_change without the expiry guard. *)
approve_signer_change_noexpiry(st, t, proposal_id, approver) ==
    IF ~st.initialized THEN Fail(st, "NotInitialized")
    ELSE IF approver \notin st.signers THEN Fail(st, "UnknownSigner")
    ELSE IF proposal_id \notin DOMAIN st.scProposals THEN Fail(st, "SignerChangeNotFound")
    ELSE IF proposal_id \in st.scExecuted THEN Fail(st, "SignerChangeAlreadyExecuted")
    ELSE IF HasApproved(st.scApprovals[proposal_id], approver)
         THEN Fail(st, "SignerChangeAlreadyApproved")
    ELSE Done([st EXCEPT !.scApprovals[proposal_id] =
                   Append(@, [signer |-> approver])])

approve_signer_change(st, t, proposal_id, approver) ==
    IF ~st.initialized THEN Fail(st, "NotInitialized")
    ELSE IF approver \notin st.signers THEN Fail(st, "UnknownSigner")
    ELSE IF proposal_id \notin DOMAIN st.scProposals THEN Fail(st, "SignerChangeNotFound")
    ELSE IF proposal_id \in st.scExecuted THEN Fail(st, "SignerChangeAlreadyExecuted")
    ELSE IF Expired(t, st.scProposals[proposal_id]) THEN Fail(st, "SignerChangeExpired")
    ELSE IF HasApproved(st.scApprovals[proposal_id], approver)
         THEN Fail(st, "SignerChangeAlreadyApproved")
    ELSE Done([st EXCEPT !.scApprovals[proposal_id] =
                   Append(@, [signer |-> approver])])

(* Faulty variant: execute_signer_change that also advances the nonce, as  *)
(* execute_proposal does.                                                  *)
execute_signer_change_bumpnonce(st, t, checks, proposal_id) ==
    IF ~st.initialized THEN Fail(st, "NotInitialized")
    ELSE IF proposal_id \notin DOMAIN st.scProposals THEN Fail(st, "SignerChangeNotFound")
    ELSE IF proposal_id \in st.scExecuted THEN Fail(st, "SignerChangeAlreadyExecuted")
    ELSE LET proposal == st.scProposals[proposal_id]
             approvals == st.scApprovals[proposal_id]
             marked(s) == [s EXCEPT !.scExecuted = @ \cup {proposal_id},
                                    !.scProposals[proposal_id].executed = TRUE,
                                    !.nonce = @ + 1]
         IN  IF Expired(t, proposal) THEN Fail(st, "SignerChangeExpired")
             ELSE IF U32Lt(Len(approvals), st.threshold)
                  THEN Fail(st, "InsufficientSignerChangeApprovals")
             ELSE IF proposal.change_type = "add"
                  THEN IF st.signerCount = -1 /\ checks
                       THEN Fail(st, "ArithmeticOverflow")
                       ELSE Done(marked([st EXCEPT
                                !.signers = @ \cup {proposal.signer},
                                !.signerCount = @ + 1]))
             ELSE IF proposal.change_type = "remove"
                  THEN IF st.signerCount = 0 /\ checks
                       THEN Fail(st, "ArithmeticOverflow")
                       ELSE Done(marked([st EXCEPT
                                !.signers = @ \ {proposal.signer},
                                !.signerCount = @ - 1]))
             ELSE Done(marked(st))

(* Faulty variant: execute_signer_change that sets the SignerChangeExecuted *)
(* marker and leaves the stored record's executed field false.             *)
execute_signer_change_norecord(st, t, checks, proposal_id) ==
    IF ~st.initialized THEN Fail(st, "NotInitialized")
    ELSE IF proposal_id \notin DOMAIN st.scProposals THEN Fail(st, "SignerChangeNotFound")
    ELSE IF proposal_id \in st.scExecuted THEN Fail(st, "SignerChangeAlreadyExecuted")
    ELSE LET proposal == st.scProposals[proposal_id]
             approvals == st.scApprovals[proposal_id]
             marked(s) == [s EXCEPT !.scExecuted = @ \cup {proposal_id}]
         IN  IF Expired(t, proposal) THEN Fail(st, "SignerChangeExpired")
             ELSE IF U32Lt(Len(approvals), st.threshold)
                  THEN Fail(st, "InsufficientSignerChangeApprovals")
             ELSE IF proposal.change_type = "add"
                  THEN IF st.signerCount = -1 /\ checks
                       THEN Fail(st, "ArithmeticOverflow")
                       ELSE Done(marked([st EXCEPT
                                !.signers = @ \cup {proposal.signer},
                                !.signerCount = @ + 1]))
             ELSE IF proposal.change_type = "remove"
                  THEN IF st.signerCount = 0 /\ checks
                       THEN Fail(st, "ArithmeticOverflow")
                       ELSE Done(marked([st EXCEPT
                                !.signers = @ \ {proposal.signer},
                                !.signerCount = @ - 1]))
             ELSE Done(marked(st))

execute_signer_change(st, t, checks, proposal_id) ==
    IF ~st.initialized THEN Fail(st, "NotInitialized")
    ELSE IF proposal_id \notin DOMAIN st.scProposals THEN Fail(st, "SignerChangeNotFound")
    ELSE IF proposal_id \in st.scExecuted THEN Fail(st, "SignerChangeAlreadyExecuted")
    ELSE LET proposal == st.scProposals[proposal_id]
             approvals == st.scApprovals[proposal_id]
             marked(s) == [s EXCEPT !.scExecuted = @ \cup {proposal_id},
                                    !.scProposals[proposal_id].executed = TRUE]
         IN  IF Expired(t, proposal) THEN Fail(st, "SignerChangeExpired")
             ELSE IF U32Lt(Len(approvals), st.threshold)
                  THEN Fail(st, "InsufficientSignerChangeApprovals")
             ELSE IF proposal.change_type = "add"
                  THEN IF st.signerCount = -1 /\ checks
                       THEN Fail(st, "ArithmeticOverflow")
                       ELSE Done(marked([st EXCEPT
                                !.signers = @ \cup {proposal.signer},
                                !.signerCount = @ + 1]))
             ELSE IF proposal.change_type = "remove"
                  THEN IF st.signerCount = 0 /\ checks
                       THEN Fail(st, "ArithmeticOverflow")
                       ELSE Done(marked([st EXCEPT
                                !.signers = @ \ {proposal.signer},
                                !.signerCount = @ - 1]))
             ELSE Done(marked(st))

(***************************************************************************)
(* Transfer workflow                                                       *)
(***************************************************************************)
(* Faulty variant: create_proposal that takes the next id from             *)
(* ProposalCount before it validates the amount, and returns the error     *)
(* instead of trapping.                                                    *)
create_proposal_countfirst(st, t, proposer, token_address, recipient, amount, reason, expires_in_seconds) ==
    IF ~st.initialized THEN Fail(st, "NotInitialized")
    ELSE IF expires_in_seconds < MIN_EXPIRY_SECONDS THEN Fail(st, "InvalidExpiryTime")
    ELSE IF expires_in_seconds > MAX_EXPIRY_SECONDS THEN Fail(st, "InvalidExpiryTime")
    ELSE IF proposer \notin st.signers THEN Fail(st, "UnknownSigner")
    ELSE LET proposal_id == st.proposalCount + 1
             counted == [st EXCEPT !.proposalCount = proposal_id]
             proposal == [id |-> proposal_id, proposer |-> proposer,
                          token_address |-> token_address, recipient |-> recipient,
                          amount |-> amount, reason |-> reason,
                          created_at |-> t, expires_at |-> t + expires_in_seconds,
                          executed |-> FALSE]
         IN  IF amount <= 0 THEN Fail(counted, "InvalidProposal")
             ELSE [st |-> [counted EXCEPT
                                !.proposals = (proposal_id :> proposal) @@ @,
                                !.approvals = (proposal_id :> <<>>) @@ @],
                   res |-> "Ok", calls |-> <<>>, value |-> proposal_id]

(* Faulty variant: create_proposal that rejects the shortest allowed        *)
(* lifetime.                                                               *)
create_proposal_strictttl(st, t, proposer, token_address, recipient, amount, reason, expires_in_seconds) ==
    IF ~st.initialized THEN Fail(st, "NotInitialized")
    ELSE IF expires_in_seconds <= MIN_EXPIRY_SECONDS THEN Fail(st, "InvalidExpiryTime")
    ELSE IF expires_in_seconds > MAX_EXPIRY_SECONDS THEN Fail(st, "InvalidExpiryTime")
    ELSE IF proposer \notin st.signers THEN Fail(st, "UnknownSigner")
    ELSE IF amount <= 0 THEN Fail(st, "InvalidProposal")
    ELSE LET proposal_id == st.proposalCount + 1
             proposal == [id |-> proposal_id, proposer |-> proposer,
                          token_address |-> token_address, recipient |-> recipient,
                          amount |-> amount, reason |-> reason,
                          created_at |-> t, expires_at |-> t + expires_in_seconds,
                          executed |-> FALSE]
         IN  [st |-> [st EXCEPT !.proposalCount = proposal_id,
                                !.proposals = (proposal_id :> proposal) @@ @,
                                !.approvals = (proposal_id :> <<>>) @@ @],
              res |-> "Ok", calls |-> <<>>, value |-> proposal_id]

(* Faulty variant: create_proposal that records the proposer as the first  *)
(* approver.                                                               *)
create_proposal_selfapprove(st, t, proposer, token_address, recipient, amount, reason, expires_in_seconds) ==
    IF ~st.initialized THEN Fail(st, "NotInitialized")
    ELSE IF expires_in_seconds < MIN_EXPIRY_SECONDS THEN Fail(st, "InvalidExpiryTime")
    ELSE IF expires_in_seconds > MAX_EXPIRY_SECONDS THEN Fail(st, "InvalidExpiryTime")
    ELSE IF proposer \notin st.signers THEN Fail(st, "UnknownSigner")
    ELSE IF amount <= 0 THEN Fail(st, "InvalidProposal")
    ELSE LET proposal_id == st.proposalCount + 1
             proposal == [id |-> proposal_id, proposer |-> proposer,
                          token_address |-> token_address, recipient |-> recipient,
                          amount |-> amount, reason |-> reason,
                          created_at |-> t, expires_at |-> t + expires_in_seconds,
                          executed |-> FALSE]
         IN  [st |-> [st EXCEPT !.proposalCount = proposal_id,
                                !.proposals = (proposal_id :> proposal) @@ @,
                                !.approvals =
                                    (proposal_id :> <<[signer |-> proposer]>>) @@ @],
              res |-> "Ok", calls |-> <<>>, value |-> proposal_id]

(* Faulty variant: create_proposal that verifies the proposer before it    *)
(* validates the expiry time.                                              *)
create_proposal_signerfirst(st, t, proposer, token_address, recipient, amount, reason, expires_in_seconds) ==
    IF ~st.initialized THEN Fail(st, "NotInitialized")
    ELSE IF proposer \notin st.signers THEN Fail(st, "UnknownSigner")
    ELSE IF expires_in_seconds < MIN_EXPIRY_SECONDS THEN Fail(st, "InvalidExpiryTime")
    ELSE IF expires_in_seconds > MAX_EXPIRY_SECONDS THEN Fail(st, "InvalidExpiryTime")
    ELSE IF amount <= 0 THEN Fail(st, "InvalidProposal")
    ELSE LET proposal_id == st.proposalCount + 1
             proposal == [id |-> proposal_id, proposer |-> proposer,
                          token_address |-> token_address, recipient |-> recipient,
                          amount |-> amount, reason |-> reason,
                          created_at |-> t, expires_at |-> t + expires_in_seconds,
                          executed |-> FALSE]
         IN  [st |-> [st EXCEPT !.proposalCount = proposal_id,
                                !.proposals = (proposal_id :> proposal) @@ @,
                                !.approvals = (proposal_id :> <<>>) @@ @],
              res |-> "Ok", calls |-> <<>>, value |-> proposal_id]

create_proposal(st, t, proposer, token_address, recipient, amount, reason, expires_in_seconds) ==
    IF ~st.initialized THEN Fail(st, "NotInitialized")
    ELSE IF expires_in_seconds < MIN_EXPIRY_SECONDS THEN Fail(st, "InvalidExpiryTime")
    ELSE IF expires_in_seconds > MAX_EXPIRY_SECONDS THEN Fail(st, "InvalidExpiryTime")
    ELSE IF proposer \notin st.signers THEN Fail(st, "UnknownSigner")
    ELSE IF amount <= 0 THEN Fail(st, "InvalidProposal")
    ELSE LET proposal_id == st.proposalCount + 1
             proposal == [id |-> proposal_id, proposer |-> proposer,
                          token_address |-> token_address, recipient |-> recipient,
                          amount |-> amount, reason |-> reason,
                          created_at |-> t, expires_at |-> t + expires_in_seconds,
                          executed |-> FALSE]
         IN  [st |-> [st EXCEPT !.proposalCount = proposal_id,
                                !.proposals = (proposal_id :> proposal) @@ @,
                                !.approvals = (proposal_id :> <<>>) @@ @],
              res |-> "Ok", calls |-> <<>>, value |-> proposal_id]

(* Faulty variant: approve_proposal without the scan for an earlier entry  *)
(* of the approver.                                                        *)
approve_proposal_nodedup(st, t, proposal_id, approver) ==
    IF ~st.initialized THEN Fail(st, "NotInitialized")
    ELSE IF approver \notin st.signers THEN Fail(st, "UnknownSigner")
    ELSE IF proposal_id \notin DOMAIN st.proposals THEN Fail(st, "ProposalNotFound")
    ELSE IF proposal_id \in st.executed THEN Fail(st, "ProposalAlreadyExecuted")
    ELSE IF Expired(t, st.proposals[proposal_id]) THEN Fail(st, "ProposalExpired")
    ELSE Done([st EXCEPT !.approvals[proposal_id] =
                   Append(@, [signer |-> approver])])

(* Faulty variant: approve_proposal without the signer check.               *)
approve_proposal_anyone(st, t, proposal_id, approver) ==
    IF ~st.initialized THEN Fail(st, "NotInitialized")
    ELSE IF proposal_id \notin DOMAIN st.proposals THEN Fail(st, "ProposalNotFound")
    ELSE IF proposal_id \in st.executed THEN Fail(st, "ProposalAlreadyExecuted")
    ELSE IF Expired(t, st.proposals[proposal_id]) THEN Fail(st, "ProposalExpired")
    ELSE IF HasApproved(st.approvals[proposal_id], approver)
         THEN Fail(st, "AlreadyApproved")
    ELSE Done([st EXCEPT !.approvals[proposal_id] =
                   Append(@, [signer |-> approver])])

(* Faulty variant: approve_proposal that keeps one approval ledger for all  *)
(* transfer proposals.                                                     *)
approve_proposal_sharedledger(st, t, proposal_id, approver) ==
    IF ~st.initialized THEN Fail(st, "NotInitialized")
    ELSE IF approver \notin st.signers THEN Fail(st, "UnknownSigner")
    ELSE IF proposal_id \notin DOMAIN st.proposals THEN Fail(st, "ProposalNotFound")
    ELSE IF proposal_id \in st.executed THEN Fail(st, "ProposalAlreadyExecuted")
    ELSE IF Expired(t, st.proposals[proposal_id]) THEN Fail(st, "ProposalExpired")
    ELSE IF HasApproved(st.approvals[proposal_id], approver)
         THEN Fail(st, "AlreadyApproved")
    ELSE Done([st EXCEPT !.approvals =
                   [id \in DOMAIN @ |-> Append(@[id], [signer |-> approver])]])

(* Faulty variant: approve_proposal that stores the proposal record again,  *)
(* with the approver as its proposer.                                      *)
approve_proposal_rewrite(st, t, proposal_id, approver) ==
    IF ~st.initialized THEN Fail(st, "NotInitialized")
    ELSE IF approver \notin st.signers THEN Fail(st, "UnknownSigner")
    ELSE IF proposal_id \notin DOMAIN st.proposals THEN Fail(st, "ProposalNotFound")
    ELSE IF proposal_id \in st.executed THEN Fail(st, "ProposalAlreadyExecuted")
    ELSE IF Expired(t, st.proposals[proposal_id]) THEN Fail(st, "ProposalExpired")
    ELSE IF HasApproved(st.approvals[proposal_id], approver)
         THEN Fail(st, "AlreadyApproved")
    ELSE Done([st EXCEPT !.approvals[proposal_id] =
                   Append(@, [signer |-> approver]),
                         !.proposals[proposal_id].proposer = approver])

approve_proposal(st, t, proposal_id, approver) ==
    IF ~st.initialized THEN Fail(st, "NotInitialized")
    ELSE IF approver \notin st.signers THEN Fail(st, "UnknownSigner")
    ELSE IF proposal_id \notin DOMAIN st.proposals THEN Fail(st, "ProposalNotFound")
    ELSE IF proposal_id \in st.executed THEN Fail(st, "ProposalAlreadyExecuted")
    ELSE IF Expired(t, st.proposals[proposal_id]) THEN Fail(st, "ProposalExpired")
    ELSE IF HasApproved(st.approvals[proposal_id], approver)
         THEN Fail(st, "AlreadyApproved")
    ELSE Done([st EXCEPT !.approvals[proposal_id] =
                   Append(@, [signer |-> approver])])

(* Faulty variant: revoke_approval that also withdraws the revoker from    *)
(* the signer registry.                                                    *)
revoke_approval_dropsigner(st, proposal_id, revoker) ==
    IF ~st.initialized THEN Fail(st, "NotInitialized")
    ELSE IF revoker \notin st.signers THEN Fail(st, "UnknownSigner")
    ELSE IF proposal_id \notin DOMAIN st.proposals THEN Fail(st, "ProposalNotFound")
    ELSE IF proposal_id \in st.executed THEN Fail(st, "ProposalAlreadyExecuted")
    ELSE IF ~HasApproved(st.approvals[proposal_id], revoker)
         THEN Fail(st, "SignerNotFound")
    ELSE Done([st EXCEPT !.approvals[proposal_id] =
                             RemoveAt(@, FirstIndex(@, revoker)),
                         !.signers = @ \ {revoker},
                         !.signerCount = @ - 1])

(* Faulty variant: revoke_approval that drops the newest entry instead of  *)
(* the revoker's.                                                          *)
revoke_approval_removelast(st, proposal_id, revoker) ==
    IF ~st.initialized THEN Fail(st, "NotInitialized")
    ELSE IF revoker \notin st.signers THEN Fail(st, "UnknownSigner")
    ELSE IF proposal_id \notin DOMAIN st.proposals THEN Fail(st, "ProposalNotFound")
    ELSE IF proposal_id \in st.executed THEN Fail(st, "ProposalAlreadyExecuted")
    ELSE IF ~HasApproved(st.approvals[proposal_id], revoker)
         THEN Fail(st, "SignerNotFound")
    ELSE Done([st EXCEPT !.approvals[proposal_id] = RemoveAt(@, Len(@))])

(* Faulty variant: revoke_approval that does not store the shortened       *)
(* collection.                                                             *)
revoke_approval_nostore(st, proposal_id, revoker) ==
    IF ~st.initialized THEN Fail(st, "NotInitialized")
    ELSE IF revoker \notin st.signers THEN Fail(st, "UnknownSigner")
    ELSE IF proposal_id \notin DOMAIN st.proposals THEN Fail(st, "ProposalNotFound")
    ELSE IF proposal_id \in st.executed THEN Fail(st, "ProposalAlreadyExecuted")
    ELSE IF ~HasApproved(st.approvals[proposal_id], revoker)
         THEN Fail(st, "SignerNotFound")
    ELSE Done(st)

revoke_approval(st, proposal_id, revoker) ==
    IF ~st.initialized THEN Fail(st, "NotInitialized")
    ELSE IF revoker \notin st.signers THEN Fail(st, "UnknownSigner")
    ELSE IF proposal_id \notin DOMAIN st.proposals THEN Fail(st, "ProposalNotFound")
    ELSE IF proposal_id \in st.executed THEN Fail(st, "ProposalAlreadyExecuted")
    ELSE IF ~HasApproved(st.approvals[proposal_id], revoker)
         THEN Fail(st, "SignerNotFound")
    ELSE Done([st EXCEPT !.approvals[proposal_id] =
                   RemoveAt(@, FirstIndex(@, revoker))])

(* token_client.transfer(multisig_address, recipient, amount): the call made   *)
(* to the token contract.                                                      *)
execute_token_transfer(proposal) ==
    [token |-> proposal.token_address, from |-> ContractAddress,
     to |-> proposal.recipient, amount |-> proposal.amount]

(* Faulty variant: execute_proposal that leaves out the ProposalExecuted   *)
(* marker.                                                                 *)
execute_proposal_nomark(st, t, proposal_id, transferOk) ==
    IF ~st.initialized THEN Fail(st, "NotInitialized")
    ELSE IF proposal_id \notin DOMAIN st.proposals THEN Fail(st, "ProposalNotFound")
    ELSE IF proposal_id \in st.executed THEN Fail(st, "ProposalAlreadyExecuted")
    ELSE LET proposal == st.proposals[proposal_id]
             approvals == st.approvals[proposal_id]
         IN  IF Expired(t, proposal) THEN Fail(st, "ProposalExpired")
             ELSE IF U32Lt(Len(approvals), st.threshold)
                  THEN Fail(st, "InsufficientApprovals")
             ELSE IF ~transferOk THEN Fail(st, "TransferFailed")
             ELSE [st |-> [st EXCEPT !.proposals[proposal_id].executed = TRUE,
                                     !.nonce = @ + 1],
                   res |-> "Ok",
                   calls |-> <<execute_token_transfer(proposal)>>]

(* Faulty variant: execute_proposal that marks the proposal executed       *)
(* before the transfer and ignores the transfer's failure.                 *)
execute_proposal_swallow(st, t, proposal_id, transferOk) ==
    IF ~st.initialized THEN Fail(st, "NotInitialized")
    ELSE IF proposal_id \notin DOMAIN st.proposals THEN Fail(st, "ProposalNotFound")
    ELSE IF proposal_id \in st.executed THEN Fail(st, "ProposalAlreadyExecuted")
    ELSE LET proposal == st.proposals[proposal_id]
             approvals == st.approvals[proposal_id]
         IN  IF Expired(t, proposal) THEN Fail(st, "ProposalExpired")
             ELSE IF U32Lt(Len(approvals), st.threshold)
                  THEN Fail(st, "InsufficientApprovals")
             ELSE [st |-> [st EXCEPT !.executed = @ \cup {proposal_id},
                                     !.proposals[proposal_id].executed = TRUE,
                                     !.nonce = @ + 1],
                   res |-> "Ok",
                   calls |-> IF transferOk
                             THEN <<execute_token_transfer(proposal)>>
                             ELSE <<>>]

(* transferOk is the token contract's answer: when the transfer traps, the     *)
(* trap propagates and the host discards everything the call wrote.            *)
(* Faulty variant: execute_proposal that treats the deadline itself as      *)
(* expired.                                                                *)
execute_proposal_exclusive(st, t, proposal_id, transferOk) ==
    IF ~st.initialized THEN Fail(st, "NotInitialized")
    ELSE IF proposal_id \notin DOMAIN st.proposals THEN Fail(st, "ProposalNotFound")
    ELSE IF proposal_id \in st.executed THEN Fail(st, "ProposalAlreadyExecuted")
    ELSE LET proposal == st.proposals[proposal_id]
             approvals == st.approvals[proposal_id]
         IN  IF t >= proposal.expires_at THEN Fail(st, "ProposalExpired")
             ELSE IF U32Lt(Len(approvals), st.threshold)
                  THEN Fail(st, "InsufficientApprovals")
             ELSE IF ~transferOk THEN Fail(st, "TransferFailed")
             ELSE [st |-> [st EXCEPT !.executed = @ \cup {proposal_id},
                                     !.proposals[proposal_id].executed = TRUE,
                                     !.nonce = @ + 1],
                   res |-> "Ok",
                   calls |-> <<execute_token_transfer(proposal)>>]

execute_proposal(st, t, proposal_id, transferOk) ==
    IF ~st.initialized THEN Fail(st, "NotInitialized")
    ELSE IF proposal_id \notin DOMAIN st.proposals THEN Fail(st, "ProposalNotFound")
    ELSE IF proposal_id \in st.executed THEN Fail(st, "ProposalAlreadyExecuted")
    ELSE LET proposal == st.proposals[proposal_id]
             approvals == st.approvals[proposal_id]
         IN  IF Expired(t, proposal) THEN Fail(st, "ProposalExpired")
             ELSE IF U32Lt(Len(approvals), st.threshold)
                  THEN Fail(st, "InsufficientApprovals")
             ELSE IF ~transferOk THEN Fail(st, "TransferFailed")
             ELSE [st |-> [st EXCEPT !.executed = @ \cup {proposal_id},
                                     !.proposals[proposal_id].executed = TRUE,
                                     !.nonce = @ + 1],
                   res |-> "Ok",
                   calls |-> <<execute_token_transfer(proposal)>>]

(***************************************************************************)
(* Read-only entry points.                                                 *)
(***************************************************************************)
Value(st, v) == [st |-> st, res |-> "Ok", calls |-> <<>>, value |-> v]

threshold(st) ==
    IF ~st.initialized THEN Fail(st, "NotInitialized") ELSE Value(st, st.threshold)

signer_count(st) ==
    IF ~st.initialized THEN Fail(st, "NotInitialized") ELSE Value(st, st.signerCount)

nonce(st) ==
    IF ~st.initialized THEN Fail(st, "NotInitialized") ELSE Value(st, st.nonce)

(* Faulty variant: is_signer without require_initialized.                   *)
is_signer_noinit(st, signer) == Value(st, signer \in st.signers)

is_signer(st, signer) ==
    IF ~st.initialized THEN Fail(st, "NotInitialized")
    ELSE Value(st, signer \in st.signers)

get_proposal(st, proposal_id) ==
    IF ~st.initialized THEN Fail(st, "NotInitialized")
    ELSE IF proposal_id \notin DOMAIN st.proposals THEN Fail(st, "UnwrapNone")
    ELSE Value(st, st.proposals[proposal_id])

get_proposal_approvals(st, proposal_id) ==
    IF ~st.initialized THEN Fail(st, "NotInitialized")
    ELSE Value(st, IF proposal_id \in DOMAIN st.approvals
                   THEN st.approvals[proposal_id] ELSE <<>>)

is_proposal_executed(st, proposal_id) ==
    IF ~st.initialized THEN Fail(st, "NotInitialized")
    ELSE Value(st, proposal_id \in st.executed)

get_proposal_count(st) ==
    IF ~st.initialized THEN Fail(st, "NotInitialized") ELSE Value(st, st.proposalCount)

get_signer_change_proposal(st, proposal_id) ==
    IF ~st.initialized THEN Fail(st, "NotInitialized")
    ELSE IF proposal_id \notin DOMAIN st.scProposals THEN Fail(st, "UnwrapNone")
    ELSE Value(st, st.scProposals[proposal_id])

get_signer_change_approvals(st, proposal_id) ==
    IF ~st.initialized THEN Fail(st, "NotInitialized")
    ELSE Value(st, IF proposal_id \in DOMAIN st.scApprovals
                   THEN st.scApprovals[proposal_id] ELSE <<>>)

is_signer_change_executed(st, proposal_id) ==
    IF ~st.initialized THEN Fail(st, "NotInitialized")
    ELSE Value(st, proposal_id \in st.scExecuted)

(***************************************************************************)
(* The calls a client can make, over the input samples, and their          *)
(* dispatch to the entry points.                                           *)
(***************************************************************************)
InitializeCalls ==
    [op : {"initialize"}, signers : InitLists, threshold : Thresholds]

CreateCalls ==
    [op : {"create_proposal"}, proposer : Ids, amount : Amounts, ttl : Ttls]

SignerCalls(cap) ==
    [op : {"approve_proposal", "revoke_approval", "approve_signer_change"},
     id : CallIds(cap), who : Ids]

ExecuteCalls(cap) ==
    [op : {"execute_proposal"}, id : CallIds(cap), transferOk : BOOLEAN]

ProposeCalls ==
    [op : {"propose_signer_change"}, proposer : Ids, change_type : ChangeTypes,
     signer : Ids, ttl : Ttls, checks : BOOLEAN]

ExecuteChangeCalls(cap) ==
    [op : {"execute_signer_change"}, id : CallIds(cap), checks : BOOLEAN]

ReadCalls(cap) ==
    [op : {"threshold", "signer_count", "nonce", "get_proposal_count"}]
    \cup [op : {"is_signer"}, who : Ids]
    \cup [op : {"get_proposal", "get_proposal_approvals", "is_proposal_executed",
                "get_signer_change_proposal", "get_signer_change_approvals",
                "is_signer_change_executed"}, id : CallIds(cap)]

EveryCall(cap, P(_)) ==
    /\ \A c \in InitializeCalls : P(c)
    /\ \A c \in CreateCalls : P(c)
    /\ \A c \in SignerCalls(cap) : P(c)
    /\ \A c \in ExecuteCalls(cap) : P(c)
    /\ \A c \in ProposeCalls : P(c)
    /\ \A c \in ExecuteChangeCalls(cap) : P(c)
    /\ \A c \in ReadCalls(cap) : P(c)

Run(st, t, c) ==
    CASE c.op = "initialize" -> initialize(st, c.signers, c.threshold)
      [] c.op = "create_proposal" ->
            create_proposal(st, t, c.proposer, Token, Recipient, c.amount, Reason, c.ttl)
      [] c.op = "approve_proposal" -> approve_proposal(st, t, c.id, c.who)
      [] c.op = "revoke_approval" -> revoke_approval(st, c.id, c.who)
      [] c.op = "execute_proposal" -> execute_proposal(st, t, c.id, c.transferOk)
      [] c.op = "propose_signer_change" ->
            propose_signer_change(st, t, c.checks, c.proposer, c.change_type,
                                  c.signer, c.ttl)
      [] c.op = "approve_signer_change" -> approve_signer_change(st, t, c.id, c.who)
      [] c.op = "execute_signer_change" ->
            execute_signer_change(st, t, c.checks, c.id)
      [] c.op = "threshold" -> threshold(st)
      [] c.op = "signer_count" -> signer_count(st)
      [] c.op = "nonce" -> nonce(st)
      [] c.op = "get_proposal_count" -> get_proposal_count(st)
      [] c.op = "is_signer" -> is_signer(st, c.who)
      [] c.op = "get_proposal" -> get_proposal(st, c.id)
      [] c.op = "get_proposal_approvals" -> get_proposal_approvals(st, c.id)
      [] c.op = "is_proposal_executed" -> is_proposal_executed(st, c.id)
      [] c.op = "get_signer_change_proposal" -> get_signer_change_proposal(st, c.id)
      [] c.op = "get_signer_change_approvals" -> get_signer_change_approvals(st, c.id)
      [] c.op = "is_signer_change_executed" -> is_signer_change_executed(st, c.id)


(***************************************************************************)
(* State machine.  A call is one atomic step (the host serialises calls    *)
(* and commits a call's writes only when it returns normally).             *)
(*   storage         instance storage of the contract                      *)
(*   now             env.ledger().timestamp()                              *)
(*   transfers       per proposal id, committed token transfers            *)
(*   mutations       per signer-change id, committed registry changes      *)
(*   failedTransfers ids whose execute met a failing token transfer        *)
(***************************************************************************)
Init ==
    /\ storage = EmptyStorage
    /\ now = 0
    /\ transfers = [id \in AllIds |-> 0]
    /\ mutations = [id \in AllIds |-> 0]
    /\ failedTransfers = {}

RegistryChanged(st1, st2) ==
    st1.signers # st2.signers \/ st1.signerCount # st2.signerCount

Commit(r) == storage' = r.st

Initialize ==
    \E list \in InitLists, thr \in Thresholds :
        /\ Commit(initialize(storage, list, thr))
        /\ UNCHANGED <<now, transfers, mutations, failedTransfers>>

CreateProposal(cap) ==
    \E proposer \in Ids, amount \in Amounts, ttl \in Ttls :
        /\ storage.proposalCount < cap
        /\ Commit(create_proposal(storage, now, proposer, Token, Recipient,
                                  amount, Reason, ttl))
        /\ UNCHANGED <<now, transfers, mutations, failedTransfers>>

ApproveProposal(cap) ==
    \E id \in CallIds(cap), approver \in Ids :
        /\ Commit(approve_proposal(storage, now, id, approver))
        /\ UNCHANGED <<now, transfers, mutations, failedTransfers>>

RevokeApproval(cap) ==
    \E id \in CallIds(cap), revoker \in Ids :
        /\ Commit(revoke_approval(storage, id, revoker))
        /\ UNCHANGED <<now, transfers, mutations, failedTransfers>>

ExecuteProposal(cap) ==
    \E id \in CallIds(cap), transferOk \in BOOLEAN :
        LET r == execute_proposal(storage, now, id, transferOk)
        IN  /\ Commit(r)
            /\ transfers' = [transfers EXCEPT ![id] = @ + Len(r.calls)]
            /\ failedTransfers' = IF r.res = "TransferFailed"
                                  THEN failedTransfers \cup {id}
                                  ELSE failedTransfers
            /\ UNCHANGED <<now, mutations>>

ProposeSignerChange(cap, proposers, kinds) ==
    \E proposer \in proposers, change_type \in kinds, signer \in Ids, ttl \in Ttls,
       checks \in BOOLEAN :
        /\ storage.proposalCount < cap
        /\ Commit(propose_signer_change(storage, now, checks, proposer,
                                        change_type, signer, ttl))
        /\ UNCHANGED <<now, transfers, mutations, failedTransfers>>

ApproveSignerChange(cap, approvers) ==
    \E id \in CallIds(cap), approver \in approvers :
        /\ Commit(approve_signer_change(storage, now, id, approver))
        /\ UNCHANGED <<now, transfers, mutations, failedTransfers>>

ExecuteSignerChange(cap) ==
    \E id \in CallIds(cap), checks \in BOOLEAN :
        LET r == execute_signer_change(storage, now, checks, id)
        IN  /\ Commit(r)
            /\ mutations' = [mutations EXCEPT ![id] =
                                IF RegistryChanged(storage, r.st) THEN @ + 1 ELSE @]
            /\ UNCHANGED <<now, transfers, failedTransfers>>

Read(cap) ==
    \E c \in ReadCalls(cap) :
        /\ Commit(Run(storage, now, c))
        /\ UNCHANGED <<now, transfers, mutations, failedTransfers>>

(* The ledger clock: supplied by the host, never decreasing. *)
Tick ==
    \E t \in Times :
        /\ t > now
        /\ now' = t
        /\ UNCHANGED <<storage, transfers, mutations, failedTransfers>>

Next ==
    \/ Initialize
    \/ CreateProposal(MaxProposals)
    \/ ApproveProposal(MaxProposals)
    \/ RevokeApproval(MaxProposals)
    \/ ExecuteProposal(MaxProposals)
    \/ ProposeSignerChange(MaxProposals, Ids, ChangeTypes)
    \/ ApproveSignerChange(MaxProposals, Ids)
    \/ ExecuteSignerChange(MaxProposals)
    \/ Read(MaxProposals)
    \/ Tick

Spec == Init /\ [][Next]_vars

(***************************************************************************)
(* The signer-change workflow alone, with room for MaxChanges proposals:   *)
(* removals proposed by s1 and approved by s1 or s2, at a fixed time.      *)
(***************************************************************************)
NextChanges ==
    \/ Initialize
    \/ ProposeSignerChange(MaxChanges, {"s1"}, {"remove"})
    \/ ApproveSignerChange(MaxChanges, {"s1", "s2"})
    \/ ExecuteSignerChange(MaxChanges)

SpecChanges == Init /\ [][NextChanges]_vars

(***************************************************************************)
(* Creation alone, with room for MaxIds proposals of both kinds, at any    *)
(* time.                                                                   *)
(***************************************************************************)
NextIds ==
    \/ Initialize
    \/ CreateProposal(MaxIds)
    \/ ProposeSignerChange(MaxIds, Ids, ChangeTypes)
    \/ Tick

SpecIds == Init /\ [][NextIds]_vars

(***************************************************************************)
(* Both workflows side by side, with room for MaxPairs proposals:          *)
(* transfer proposals gather approvals while removals proposed and         *)
(* approved by s1 are executed, at a fixed time.                           *)
(***************************************************************************)
NextPairs ==
    \/ Initialize
    \/ CreateProposal(MaxPairs)
    \/ ApproveProposal(MaxPairs)
    \/ ProposeSignerChange(MaxPairs, {"s1"}, {"remove"})
    \/ ApproveSignerChange(MaxPairs, {"s1"})
    \/ ExecuteSignerChange(MaxPairs)

SpecPairs == Init /\ [][NextPairs]_vars

(***************************************************************************)
(* Properties.                                                             *)
(***************************************************************************)
TransferOpen(id) ==
    /\ id \in DOMAIN storage.proposals
    /\ id \notin storage.executed
    /\ now <= storage.proposals[id].expires_at

ChangeOpen(id) ==
    /\ id \in DOMAIN storage.scProposals
    /\ id \notin storage.scExecuted
    /\ now <= storage.scProposals[id].expires_at

Approvers(approvals) == {approvals[i].signer : i \in 1 .. Len(approvals)}

(* C1: execute is exactly-once in both workflows.  An executed id stays    *)
(* executed, every later execute on it fails with ProposalAlreadyExecuted  *)
(* (SignerChangeAlreadyExecuted), the token transfer is committed at most  *)
(* once per transfer id and the registry is changed at most once per       *)
(* signer-change id; an id is executed exactly when its effect happened.   *)
C1_State ==
    \A id \in AllIds :
        /\ transfers[id] <= 1
        /\ mutations[id] <= 1
        /\ (transfers[id] = 1) <=> (id \in storage.executed)
        /\ (mutations[id] = 1) <=> (id \in storage.scExecuted)
        /\ id \in storage.executed =>
              \A ok \in BOOLEAN :
                  execute_proposal(storage, now, id, ok)
                      = Fail(storage, "ProposalAlreadyExecuted")
        /\ id \in storage.scExecuted =>
              \A checks \in BOOLEAN :
                  execute_signer_change(storage, now, checks, id)
                      = Fail(storage, "SignerChangeAlreadyExecuted")

C1_Step ==
    /\ storage.executed \subseteq storage'.executed
    /\ storage.scExecuted \subseteq storage'.scExecuted

C1_ExecuteExactlyOnce == []C1_State /\ [][C1_Step]_vars

C1_Witness ==
    \E id \in AllIds : id \in storage.executed /\ transfers[id] = 1

(* C2: quorum is exact-threshold.  On an existing, unexecuted, unexpired   *)
(* proposal execute fails with InsufficientApprovals                       *)
(* (InsufficientSignerChangeApprovals) when the approval count is below    *)
(* the threshold and succeeds when it is at or above it (for transfers,    *)
(* when the token transfer succeeds).                                      *)
C2_QuorumExact ==
    /\ \A id \in AllIds : TransferOpen(id) =>
          IF Len(storage.approvals[id]) < storage.threshold
          THEN \A ok \in BOOLEAN :
                   execute_proposal(storage, now, id, ok).res = "InsufficientApprovals"
          ELSE execute_proposal(storage, now, id, TRUE).res = "Ok"
    /\ \A id \in AllIds : ChangeOpen(id) =>
          \A checks \in BOOLEAN :
              execute_signer_change(storage, now, checks, id).res =
                  IF Len(storage.scApprovals[id]) < storage.threshold
                  THEN "InsufficientSignerChangeApprovals"
                  ELSE "Ok"

(* C3: after initialize, 1 <= threshold() <= signer_count() in every       *)
(* reachable state.                                                        *)
C3_ThresholdWithinSigners ==
    storage.initialized =>
        /\ 1 <= storage.threshold
        /\ U32Le(storage.threshold, storage.signerCount)

(* C4: approval deduplication.  Every approval collection holds at most    *)
(* one entry per signer, and an approve by a signer who already has an     *)
(* entry on an existing, unexecuted, unexpired proposal fails with         *)
(* AlreadyApproved (SignerChangeAlreadyApproved) and changes nothing.      *)
NoDuplicate(approvals) ==
    \A i, j \in 1 .. Len(approvals) :
        i # j => approvals[i].signer # approvals[j].signer

C4_ApprovalDedup ==
    /\ \A id \in DOMAIN storage.approvals :
          /\ NoDuplicate(storage.approvals[id])
          /\ \A s \in storage.signers :
                (TransferOpen(id) /\ s \in Approvers(storage.approvals[id])) =>
                    approve_proposal(storage, now, id, s)
                        = Fail(storage, "AlreadyApproved")
    /\ \A id \in DOMAIN storage.scApprovals :
          /\ NoDuplicate(storage.scApprovals[id])
          /\ \A s \in storage.signers :
                (ChangeOpen(id) /\ s \in Approvers(storage.scApprovals[id])) =>
                    approve_signer_change(storage, now, id, s)
                        = Fail(storage, "SignerChangeAlreadyApproved")

C4_Witness ==
    \E id \in DOMAIN storage.approvals : \E s \in storage.signers :
        TransferOpen(id) /\ s \in Approvers(storage.approvals[id])

(* C5: for every proposal of either kind, the number of recorded           *)
(* approvals never exceeds the current signer_count().                     *)
C5_ApprovalsWithinSignerCount ==
    /\ \A id \in DOMAIN storage.approvals :
          U32Le(Len(storage.approvals[id]), storage.signerCount)
    /\ \A id \in DOMAIN storage.scApprovals :
          U32Le(Len(storage.scApprovals[id]), storage.signerCount)

(* C6: expiry is permanent.  Once now > expires_at for a proposal of       *)
(* either kind, every approve and execute on it fails, it stays expired,   *)
(* it is not executed afterwards and it gains no approval.                 *)
C6_State ==
    /\ \A id \in DOMAIN storage.proposals :
          now > storage.proposals[id].expires_at =>
              /\ \A a \in Ids : approve_proposal(storage, now, id, a).res # "Ok"
              /\ \A ok \in BOOLEAN : execute_proposal(storage, now, id, ok).res # "Ok"
    /\ \A id \in DOMAIN storage.scProposals :
          now > storage.scProposals[id].expires_at =>
              /\ \A a \in Ids : approve_signer_change(storage, now, id, a).res # "Ok"
              /\ \A checks \in BOOLEAN :
                    execute_signer_change(storage, now, checks, id).res # "Ok"

C6_Step ==
    /\ \A id \in DOMAIN storage.proposals :
          now > storage.proposals[id].expires_at =>
              /\ id \in DOMAIN storage'.proposals
              /\ now' > storage'.proposals[id].expires_at
              /\ id \in storage'.executed => id \in storage.executed
              /\ Approvers(storage'.approvals[id])
                     \subseteq Approvers(storage.approvals[id])
    /\ \A id \in DOMAIN storage.scProposals :
          now > storage.scProposals[id].expires_at =>
              /\ id \in DOMAIN storage'.scProposals
              /\ now' > storage'.scProposals[id].expires_at
              /\ id \in storage'.scExecuted => id \in storage.scExecuted
              /\ Approvers(storage'.scApprovals[id])
                     \subseteq Approvers(storage.scApprovals[id])

C6_ExpiryPermanent == []C6_State /\ [][C6_Step]_vars

C6_Witness ==
    \E id \in DOMAIN storage.proposals :
        /\ now > storage.proposals[id].expires_at
        /\ id \notin storage.executed
        /\ Len(storage.approvals[id]) >= storage.threshold

(* C7: the nonce is 0 after initialize, a successful execute_proposal      *)
(* raises it by exactly 1 and no other call changes it, so nonce() is the  *)
(* number of executed transfer proposals.                                  *)
RECURSIVE SumOver(_, _)
SumOver(f, S) ==
    IF S = {} THEN 0
    ELSE LET x == CHOOSE y \in S : TRUE IN f[x] + SumOver(f, S \ {x})

C7_Call(c) ==
    LET r == Run(storage, now, c)
    IN  r.st.nonce = IF c.op = "execute_proposal" /\ r.res = "Ok"
                     THEN storage.nonce + 1
                     ELSE storage.nonce

C7_State ==
    /\ storage.nonce = Cardinality(storage.executed)
    /\ storage.nonce = SumOver(transfers, AllIds)
    /\ EveryCall(MaxProposals, C7_Call)

C7_Step ==
    \/ storage'.nonce = storage.nonce
    \/ /\ storage'.nonce = storage.nonce + 1
       /\ \E id \in AllIds :
             /\ id \in storage'.executed \ storage.executed
             /\ transfers'[id] = transfers[id] + 1
             /\ mutations' = mutations

C7_NonceCountsExecutedTransfers == []C7_State /\ [][C7_Step]_vars

C7_Witness ==
    /\ storage.nonce = 1
    /\ storage.executed # {}

(* C8: a call that fails with any error kind leaves the whole persisted    *)
(* state as it was and commits no external call.                           *)
C8_Call(c) ==
    LET r == Run(storage, now, c)
    IN  r.res # "Ok" => (r.st = storage /\ r.calls = <<>>)

C8_State == EveryCall(MaxProposals, C8_Call)

C8_Step ==
    failedTransfers' # failedTransfers =>
        UNCHANGED <<storage, now, transfers, mutations>>

C8_FailedCallsChangeNothing == []C8_State /\ [][C8_Step]_vars

C8_Witness ==
    \E id \in failedTransfers :
        /\ id \notin storage.executed
        /\ transfers[id] = 0
        /\ storage.nonce = 0

(* C9: when the token transfer fails, execute_proposal fails as a whole:   *)
(* the proposal stays unexecuted with its approvals and the nonce as they  *)
(* were, and a later execute_proposal on the same id, still unexpired and  *)
(* at quorum, succeeds.                                                    *)
C9_State ==
    \A id \in DOMAIN storage.proposals :
        (TransferOpen(id) /\ Len(storage.approvals[id]) >= storage.threshold) =>
            /\ execute_proposal(storage, now, id, FALSE)
                   = Fail(storage, "TransferFailed")
            /\ execute_proposal(storage, now, id, TRUE).res = "Ok"
            /\ id \in execute_proposal(storage, now, id, TRUE).st.executed

C9_Step ==
    failedTransfers' # failedTransfers =>
        /\ storage' = storage
        /\ transfers' = transfers

C9_TransferFailureAtomic == []C9_State /\ [][C9_Step]_vars

C9_Witness ==
    \E id \in failedTransfers : id \in storage.executed /\ transfers[id] = 1

(* C10: initialize succeeds exactly once.  On an uninitialized contract a  *)
(* non-empty duplicate-free list with 1 <= threshold <= |signers| is       *)
(* accepted; after a successful initialize every initialize call fails     *)
(* with AlreadyInitialized, whatever its arguments, and changes nothing.   *)
ValidInit(list, thr) ==
    /\ Len(list) > 0
    /\ Cardinality(Range(list)) = Len(list)
    /\ 1 <= thr
    /\ thr <= Len(list)

C10_State ==
    \A list \in InitLists, thr \in Thresholds :
        IF storage.initialized
        THEN initialize(storage, list, thr) = Fail(storage, "AlreadyInitialized")
        ELSE ValidInit(list, thr) =>
                 /\ initialize(storage, list, thr).res = "Ok"
                 /\ initialize(storage, list, thr).st.initialized

C10_Step == storage.initialized => storage'.initialized

C10_InitializeOnce == []C10_State /\ [][C10_Step]_vars

C10_Witness ==
    /\ storage.initialized
    /\ storage.signerCount = 2
    /\ storage.proposalCount = 0

(* C11: on an uninitialized contract, initialize rejects invalid input     *)
(* with the kind of the first failing check, in the order empty list       *)
(* (EmptySignersList), threshold 0 (InvalidThreshold), threshold above the *)
(* number of entries (ThresholdExceedsSigners), two identical entries      *)
(* (DuplicateSigner), and the contract is still uninitialized afterwards.  *)
InitializeKind(list, thr) ==
    IF Len(list) = 0 THEN "EmptySignersList"
    ELSE IF thr = 0 THEN "InvalidThreshold"
    ELSE IF thr > Len(list) THEN "ThresholdExceedsSigners"
    ELSE IF Cardinality(Range(list)) < Len(list) THEN "DuplicateSigner"
    ELSE "Ok"

C11_InitializeRejectsInOrder ==
    ~storage.initialized =>
        \A list \in InitLists, thr \in Thresholds :
            LET r == initialize(storage, list, thr)
            IN  /\ r.res = InitializeKind(list, thr)
                /\ r.res # "Ok" => (r.st = storage /\ ~r.st.initialized)

C11_Witness ==
    /\ ~storage.initialized
    /\ now > 0
    /\ initialize(storage, <<>>, 0) = Fail(storage, "EmptySignersList")
    /\ initialize(storage, <<"s1", "s1">>, 0) = Fail(storage, "InvalidThreshold")
    /\ initialize(storage, <<"s1", "s1">>, 3) = Fail(storage, "ThresholdExceedsSigners")
    /\ initialize(storage, <<"s1", "s1">>, 2) = Fail(storage, "DuplicateSigner")

(* C12: immediately after a successful initialize(signers, t),             *)
(* threshold() = t, signer_count() = the length of the list, nonce() = 0   *)
(* and is_signer(x) is true exactly for the identities x of the list.      *)
AfterInitialize(st, list, thr) ==
    /\ threshold(st) = Value(st, thr)
    /\ signer_count(st) = Value(st, Len(list))
    /\ nonce(st) = Value(st, 0)
    /\ \A x \in Ids : is_signer(st, x) = Value(st, x \in Range(list))

C12_State ==
    \A list \in InitLists, thr \in Thresholds :
        LET r == initialize(storage, list, thr)
        IN  r.res = "Ok" => AfterInitialize(r.st, list, thr)

C12_Step ==
    (~storage.initialized /\ storage'.initialized) =>
        \E list \in InitLists, thr \in Thresholds :
            AfterInitialize(storage', list, thr)

C12_InitializeStoresRegistry == []C12_State /\ [][C12_Step]_vars

C12_Witness ==
    /\ storage.initialized
    /\ storage.proposalCount = 0
    /\ AfterInitialize(storage, <<"s1", "s2">>, 1)

(* C13: create_proposal and propose_signer_change fail with                *)
(* InvalidExpiryTime whenever ttl < 3600 or ttl > 2592000, accept the      *)
(* boundary values 3600 and 2592000, and on success store created_at = the *)
(* current time and expires_at = created_at + ttl.                         *)
TtlSamples == {3599, 3600, 2592000, 2592001}

TtlInRange(ttl) == 3600 <= ttl /\ ttl <= 2592000

Stamped(proposal, t, ttl) ==
    proposal.created_at = t /\ proposal.expires_at = t + ttl

C13_Create(ttl) ==
    \A proposer \in Ids, amount \in Amounts :
        LET r == create_proposal(storage, now, proposer, Token, Recipient,
                                 amount, Reason, ttl)
        IN  IF ~TtlInRange(ttl) THEN r = Fail(storage, "InvalidExpiryTime")
            ELSE /\ r.res # "InvalidExpiryTime"
                 /\ (proposer \in storage.signers /\ amount > 0) => r.res = "Ok"
                 /\ r.res = "Ok" =>
                       Stamped(r.st.proposals[storage.proposalCount + 1], now, ttl)

C13_Propose(ttl) ==
    \A proposer \in Ids, change_type \in ChangeTypes, signer \in Ids,
       checks \in BOOLEAN :
        LET r == propose_signer_change(storage, now, checks, proposer,
                                       change_type, signer, ttl)
        IN  IF ~TtlInRange(ttl) THEN r = Fail(storage, "InvalidExpiryTime")
            ELSE /\ r.res # "InvalidExpiryTime"
                 /\ (/\ proposer \in storage.signers
                     /\ change_type = "add"
                     /\ signer \notin storage.signers) => r.res = "Ok"
                 /\ r.res = "Ok" =>
                       Stamped(r.st.scProposals[storage.proposalCount + 1], now, ttl)

C13_State ==
    /\ storage.initialized =>
          \A ttl \in TtlSamples : C13_Create(ttl) /\ C13_Propose(ttl)
    /\ \A id \in DOMAIN storage.proposals :
          /\ storage.proposals[id].created_at <= now
          /\ TtlInRange(storage.proposals[id].expires_at
                           - storage.proposals[id].created_at)
    /\ \A id \in DOMAIN storage.scProposals :
          /\ storage.scProposals[id].created_at <= now
          /\ TtlInRange(storage.scProposals[id].expires_at
                           - storage.scProposals[id].created_at)

C13_Step ==
    /\ \A id \in DOMAIN storage'.proposals \ DOMAIN storage.proposals :
          storage'.proposals[id].created_at = now
    /\ \A id \in DOMAIN storage'.scProposals \ DOMAIN storage.scProposals :
          storage'.scProposals[id].created_at = now

C13_TtlBounds == []C13_State /\ [][C13_Step]_vars

C13_Witness ==
    \E id \in DOMAIN storage.proposals :
        /\ now = 3600
        /\ Stamped(storage.proposals[id], 3600, 3600)

(* C14: propose_signer_change with kind remove, a signer proposer, a valid *)
(* ttl and a target that is a signer fails with ThresholdExceedsSigners    *)
(* exactly when signer_count() - 1 < threshold() and succeeds otherwise;   *)
(* with kind add it never fails with ThresholdExceedsSigners.              *)
RemovalBreaksThreshold(st) ==
    st.signerCount >= 0 /\ st.signerCount - 1 < st.threshold

C14_RemoveGuardedByThreshold ==
    storage.initialized =>
        /\ \A proposer \in storage.signers, target \in storage.signers,
              checks \in BOOLEAN :
              LET r == propose_signer_change(storage, now, checks, proposer,
                                             "remove", target, 3600)
              IN  IF RemovalBreaksThreshold(storage)
                  THEN r = Fail(storage, "ThresholdExceedsSigners")
                  ELSE r.res = "Ok"
        /\ \A proposer \in Ids, target \in Ids, ttl \in Ttls, checks \in BOOLEAN :
              propose_signer_change(storage, now, checks, proposer,
                                    "add", target, ttl).res
                  # "ThresholdExceedsSigners"

(* C15: a successful execute_signer_change applies its change.  For an add *)
(* proposal is_signer(target) becomes true and signer_count() rises by     *)
(* exactly 1; for a remove proposal is_signer(target) becomes false and    *)
(* signer_count() falls by exactly 1; in both cases                        *)
(* is_signer_change_executed(id) becomes true and no other signer's        *)
(* membership changes.  The count is a u32: a step from 0 to 4294967295    *)
(* (or back) is not a change by 1.                                         *)
C15_Applied(id, r) ==
    LET proposal == storage.scProposals[id]
    IN  /\ is_signer_change_executed(r.st, id) = Value(r.st, TRUE)
        /\ \A x \in Ids \ {proposal.signer} :
              is_signer(r.st, x).value = is_signer(storage, x).value
        /\ proposal.change_type = "add" =>
              /\ is_signer(r.st, proposal.signer).value
              /\ storage.signerCount # -1
              /\ signer_count(r.st).value = signer_count(storage).value + 1
        /\ proposal.change_type = "remove" =>
              /\ ~is_signer(r.st, proposal.signer).value
              /\ storage.signerCount # 0
              /\ signer_count(r.st).value = signer_count(storage).value - 1

C15_ExecuteAppliesChange ==
    \A id \in AllIds, checks \in BOOLEAN :
        LET r == execute_signer_change(storage, now, checks, id)
        IN  r.res = "Ok" => C15_Applied(id, r)

(* C16: registry frame.  After initialize threshold() never changes; the   *)
(* signer set and signer_count() change only in a successful               *)
(* execute_signer_change; create_proposal, approve_proposal,               *)
(* revoke_approval, execute_proposal, propose_signer_change,               *)
(* approve_signer_change and the getters leave them unchanged; the token   *)
(* transfer is invoked only inside a successful execute_proposal.          *)
C16_Call(c) ==
    LET r == Run(storage, now, c)
    IN  /\ storage.initialized => r.st.threshold = storage.threshold
        /\ (c.op \notin {"initialize", "execute_signer_change"} \/ r.res # "Ok") =>
              /\ r.st.signers = storage.signers
              /\ r.st.signerCount = storage.signerCount
              /\ r.st.threshold = storage.threshold
        /\ (c.op # "execute_proposal" \/ r.res # "Ok") => r.calls = <<>>

C16_State == EveryCall(MaxProposals, C16_Call)

C16_Step ==
    /\ storage.initialized =>
          /\ storage'.threshold = storage.threshold
          /\ RegistryChanged(storage, storage') =>
                \E id \in AllIds :
                    /\ id \in storage'.scExecuted \ storage.scExecuted
                    /\ mutations'[id] = mutations[id] + 1
    /\ transfers' # transfers =>
          \E id \in AllIds :
              /\ id \in storage'.executed \ storage.executed
              /\ transfers'[id] = transfers[id] + 1

C16_RegistryFrame == []C16_State /\ [][C16_Step]_vars

C16_Witness ==
    /\ storage.signers = {"s1", "s2", "s3"}
    /\ storage.signerCount = 3
    /\ \E id \in storage.scExecuted : mutations[id] = 1

(* C17: a successful revoke_approval(id, s) removes exactly the entry of s *)
(* from the transfer proposal's approval collection and leaves the other   *)
(* entries in their insertion order; when s, a signer, has no entry on an  *)
(* existing, unexecuted proposal the call fails with SignerNotFound and    *)
(* the collection is unchanged.                                            *)
EntriesOfOthers(approvals, s) ==
    LET Other(entry) == entry.signer # s IN SelectSeq(approvals, Other)

C18_EntryHolderRevokes ==
    \A id \in DOMAIN storage.proposals \ storage.executed :
        \A s \in Approvers(storage.approvals[id]) :
            revoke_approval(storage, id, s).res = "Ok"

C18_RevokeFailureKinds ==
    storage.initialized =>
        /\ \A id \in CallIds(MaxProposals), s \in Ids :
              revoke_approval(storage, id, s).res \in
                  {"Ok", "ProposalNotFound", "ProposalAlreadyExecuted",
                   "SignerNotFound"}
        /\ C18_EntryHolderRevokes

(* C19: only current signers act.  A create_proposal,                      *)
(* propose_signer_change, approve_proposal or approve_signer_change call   *)
(* whose proposer or approver is not a signer at the moment of the call    *)
(* (never was one, or was removed by an executed remove) creates no        *)
(* proposal and records no approval, and with otherwise valid arguments    *)
(* fails with UnknownSigner.                                               *)
ValidChange(st, change_type, target) ==
    \/ change_type = "add" /\ target \notin st.signers
    \/ /\ change_type = "remove"
       /\ target \in st.signers
       /\ ~RemovalBreaksThreshold(st)

C19_State ==
    storage.initialized =>
        \A who \in Ids \ storage.signers :
            /\ \A amount \in Amounts, ttl \in Ttls :
                  LET r == create_proposal(storage, now, who, Token, Recipient,
                                           amount, Reason, ttl)
                  IN  /\ r.res # "Ok" /\ r.st = storage
                      /\ (TtlInRange(ttl) /\ amount > 0) => r.res = "UnknownSigner"
            /\ \A change_type \in ChangeTypes, target \in Ids, ttl \in Ttls,
                  checks \in BOOLEAN :
                  LET r == propose_signer_change(storage, now, checks, who,
                                                 change_type, target, ttl)
                  IN  /\ r.res # "Ok" /\ r.st = storage
                      /\ (TtlInRange(ttl) /\ ValidChange(storage, change_type, target))
                            => r.res = "UnknownSigner"
            /\ \A id \in CallIds(MaxProposals) :
                  /\ approve_proposal(storage, now, id, who).st = storage
                  /\ TransferOpen(id) =>
                        approve_proposal(storage, now, id, who).res = "UnknownSigner"
                  /\ approve_signer_change(storage, now, id, who).st = storage
                  /\ ChangeOpen(id) =>
                        approve_signer_change(storage, now, id, who).res
                            = "UnknownSigner"

C19_Step ==
    /\ \A id \in DOMAIN storage'.proposals \ DOMAIN storage.proposals :
          storage'.proposals[id].proposer \in storage.signers
    /\ \A id \in DOMAIN storage'.scProposals \ DOMAIN storage.scProposals :
          storage'.scProposals[id].proposer \in storage.signers
    /\ \A id \in DOMAIN storage.approvals :
          Approvers(storage'.approvals[id]) \ Approvers(storage.approvals[id])
              \subseteq storage.signers
    /\ \A id \in DOMAIN storage.scApprovals :
          Approvers(storage'.scApprovals[id]) \ Approvers(storage.scApprovals[id])
              \subseteq storage.signers

C19_OnlySignersAct == []C19_State /\ [][C19_Step]_vars

C19_Witness ==
    \E id \in storage.scExecuted :
        LET removed == storage.scProposals[id].signer
        IN  /\ storage.scProposals[id].change_type = "remove"
            /\ removed \notin storage.signers
            /\ removed \in Approvers(storage.scApprovals[id])
            /\ create_proposal(storage, now, removed, Token, Recipient, 1000,
                               Reason, 3600) = Fail(storage, "UnknownSigner")

(* C20: before a successful initialize, every public entry point other     *)
(* than initialize (create, propose, approve, revoke, execute and every    *)
(* getter) fails with NotInitialized and changes no state.                 *)
C20_Call(c) ==
    c.op # "initialize" => Run(storage, now, c) = Fail(storage, "NotInitialized")

C20_NotInitializedGuard ==
    ~storage.initialized =>
        /\ storage = EmptyStorage
        /\ EveryCall(MaxProposals, C20_Call)

C20_Witness ==
    /\ ~storage.initialized
    /\ now = 3601
    /\ execute_proposal(storage, now, 1, TRUE) = Fail(storage, "NotInitialized")
    /\ is_signer(storage, "s1") = Fail(storage, "NotInitialized")

(* C21: in every reachable state and for every proposal id of either kind, *)
(* the executed marker (ProposalExecuted / SignerChangeExecuted, read by   *)
(* is_proposal_executed / is_signer_change_executed) is present exactly    *)
(* when the executed field of the stored proposal record is true.          *)
C21_MarkerMatchesRecord ==
    /\ storage.executed \subseteq DOMAIN storage.proposals
    /\ storage.scExecuted \subseteq DOMAIN storage.scProposals
    /\ storage.initialized =>
          /\ \A id \in DOMAIN storage.proposals :
                is_proposal_executed(storage, id).value
                    = get_proposal(storage, id).value.executed
          /\ \A id \in DOMAIN storage.scProposals :
                is_signer_change_executed(storage, id).value
                    = get_signer_change_proposal(storage, id).value.executed

C21_Witness ==
    \E id \in DOMAIN storage.scProposals :
        /\ is_signer_change_executed(storage, id).value
        /\ get_signer_change_proposal(storage, id).value.executed

(* C22: propose_signer_change by a signer with a valid ttl validates its   *)
(* target against the registry as it is at the call: add with a target     *)
(* that is a signer fails with DuplicateSigner, remove with a target that  *)
(* is not a signer fails with SignerNotFound, a kind that is neither fails *)
(* with InvalidProposal; in each case no proposal is stored.               *)
C22_TargetValidated ==
    storage.initialized =>
        \A proposer \in storage.signers, target \in Ids, checks \in BOOLEAN :
            /\ target \in storage.signers =>
                  propose_signer_change(storage, now, checks, proposer,
                                        "add", target, 3600)
                      = Fail(storage, "DuplicateSigner")
            /\ target \notin storage.signers =>
                  propose_signer_change(storage, now, checks, proposer,
                                        "remove", target, 3600)
                      = Fail(storage, "SignerNotFound")
            /\ propose_signer_change(storage, now, checks, proposer,
                                     "swap", target, 3600)
                   = Fail(storage, "InvalidProposal")

C22_Witness ==
    \E id \in storage.scExecuted :
        LET added == storage.scProposals[id].signer
        IN  /\ storage.scProposals[id].change_type = "add"
            /\ added \in storage.signers
            /\ propose_signer_change(storage, now, TRUE, "s1", "add", added, 3600)
                   = Fail(storage, "DuplicateSigner")

(* C23: create_proposal by a signer with a valid ttl succeeds exactly when *)
(* amount > 0 (amount <= 0 fails with InvalidProposal); on success the     *)
(* stored proposal carries the given proposer, token, recipient, amount    *)
(* and reason with executed = false, and its approval collection is empty. *)
C23_Created(r, proposer, amount) ==
    LET proposal == get_proposal(r.st, r.value).value
    IN  /\ r.res = "Ok"
        /\ proposal.proposer = proposer
        /\ proposal.token_address = Token
        /\ proposal.recipient = Recipient
        /\ proposal.amount = amount
        /\ proposal.reason = Reason
        /\ proposal.executed = FALSE
        /\ ~is_proposal_executed(r.st, r.value).value
        /\ get_proposal_approvals(r.st, r.value).value = <<>>

C23_CreateProposalStores ==
    storage.initialized =>
        \A proposer \in storage.signers, amount \in Amounts :
            LET r == create_proposal(storage, now, proposer, Token, Recipient,
                                     amount, Reason, 3600)
            IN  IF amount > 0 THEN C23_Created(r, proposer, amount)
                ELSE r = Fail(storage, "InvalidProposal")

C23_Witness ==
    \E id \in DOMAIN storage.proposals :
        /\ storage.proposals[id].proposer = "s2"
        /\ storage.proposals[id].amount = 1000
        /\ ~storage.proposals[id].executed
        /\ storage.approvals[id] = <<>>

(* C24: proposal ids come from one contract-wide counter.  The k-th        *)
(* successful creation, counting create_proposal and propose_signer_change *)
(* together, returns id k and get_proposal_count() = k afterwards; a       *)
(* failed creation consumes no id; ids start at 1, are strictly            *)
(* increasing, are never reused, and no id names both a transfer proposal  *)
(* and a signer-change proposal.                                           *)
Created(st) == DOMAIN st.proposals \cup DOMAIN st.scProposals

C24_Creation(c) ==
    LET r == Run(storage, now, c)
    IN  IF r.res = "Ok"
        THEN /\ r.value = Cardinality(Created(storage)) + 1
             /\ get_proposal_count(r.st).value = r.value
             /\ Created(r.st) = Created(storage) \cup {r.value}
        ELSE /\ r.st.proposalCount = storage.proposalCount
             /\ Created(r.st) = Created(storage)

C24_State ==
    /\ Created(storage) = 1 .. storage.proposalCount
    /\ DOMAIN storage.proposals \cap DOMAIN storage.scProposals = {}
    /\ \A id \in DOMAIN storage.proposals : storage.proposals[id].id = id
    /\ \A id \in DOMAIN storage.scProposals : storage.scProposals[id].id = id
    /\ storage.initialized =>
          get_proposal_count(storage).value = Cardinality(Created(storage))
    /\ \A c \in CreateCalls : C24_Creation(c)
    /\ \A c \in ProposeCalls : C24_Creation(c)

C24_Step ==
    /\ DOMAIN storage.proposals \subseteq DOMAIN storage'.proposals
    /\ DOMAIN storage.scProposals \subseteq DOMAIN storage'.scProposals
    /\ \A id \in Created(storage') \ Created(storage) :
          /\ id = storage.proposalCount + 1
          /\ \A other \in Created(storage) : other < id

C24_OneCounter == []C24_State /\ [][C24_Step]_vars

C24_Witness ==
    /\ storage.proposalCount = 3
    /\ DOMAIN storage.proposals = {1, 3}
    /\ DOMAIN storage.scProposals = {2}

(* C25: calls addressed to different proposal ids are independent.  For    *)
(* any reachable state, fixed clock value and any two approve, revoke or   *)
(* execute calls (of either workflow) on different ids, running them in    *)
(* either order gives each call the same outcome and yields the same final *)
(* state.                                                                  *)
IdCalls(cap) == SignerCalls(cap) \cup ExecuteCalls(cap) \cup ExecuteChangeCalls(cap)

Commute(c1, c2) ==
    LET first1 == Run(storage, now, c1)
        first2 == Run(storage, now, c2)
        second2 == Run(first1.st, now, c2)
        second1 == Run(first2.st, now, c1)
    IN  /\ second1.res = first1.res
        /\ second2.res = first2.res
        /\ second1.calls = first1.calls
        /\ second2.calls = first2.calls
        /\ second2.st = second1.st

ReadsRegistry(c) ==
    c.op \in {"approve_proposal", "revoke_approval", "approve_signer_change",
              "execute_signer_change"}

RegistryConflict(c1, c2) ==
    \/ c1.op = "execute_signer_change" /\ ReadsRegistry(c2)
    \/ c2.op = "execute_signer_change" /\ ReadsRegistry(c1)

SignerApprovals(approvals) ==
    Cardinality(Approvers(approvals) \cap storage.signers)

C26_QuorumOfCurrentSigners ==
    \A id \in AllIds :
        /\ \A ok \in BOOLEAN :
              execute_proposal(storage, now, id, ok).res = "Ok" =>
                  SignerApprovals(storage.approvals[id]) >= threshold(storage).value
        /\ \A checks \in BOOLEAN :
              execute_signer_change(storage, now, checks, id).res = "Ok" =>
                  SignerApprovals(storage.scApprovals[id]) >= threshold(storage).value

(* C27: in every state reachable after initialize, signer_count() equals   *)
(* the number of identities x for which is_signer(x) is true.              *)
C27_CountMatchesSigners ==
    storage.initialized =>
        signer_count(storage).value
            = Cardinality({x \in Ids : is_signer(storage, x).value})

(* C28: the stored signer count never underflows.  Each                    *)
(* execute_signer_change of a remove proposal and each evaluation of       *)
(* count - 1 in propose_signer_change happens with the stored u32 count    *)
(* >= 1, so the count never wraps below 0 nor aborts the call on the       *)
(* subtraction.                                                            *)
C28_NoUnderflow ==
    storage.initialized =>
        /\ storage.signerCount >= 0
        /\ \A proposer \in Ids, target \in Ids, checks \in BOOLEAN :
              propose_signer_change(storage, now, checks, proposer, "remove",
                                    target, 3600).res
                  \in {"Ok", "ThresholdExceedsSigners", "ArithmeticOverflow"}
              => storage.signerCount # 0
        /\ \A id \in DOMAIN storage.scProposals, checks \in BOOLEAN :
              (/\ storage.scProposals[id].change_type = "remove"
               /\ execute_signer_change(storage, now, checks, id).res
                      \in {"Ok", "ArithmeticOverflow"})
              => storage.signerCount # 0

(* C29: the expiry deadline is inclusive.  An approve or execute call of   *)
(* either workflow made at now = expires_at is not rejected as expired;    *)
(* the Expired kinds are raised exactly when now > expires_at on an        *)
(* existing, unexecuted proposal (for approve: by a signer, whose identity *)
(* is checked first).                                                      *)
C29_Transfer(id) ==
    LET late == now > get_proposal(storage, id).value.expires_at
    IN  /\ \A a \in storage.signers :
              (approve_proposal(storage, now, id, a).res = "ProposalExpired") <=> late
        /\ \A ok \in BOOLEAN :
              (execute_proposal(storage, now, id, ok).res = "ProposalExpired") <=> late

C29_Change(id) ==
    LET late == now > get_signer_change_proposal(storage, id).value.expires_at
    IN  /\ \A a \in storage.signers :
              (approve_signer_change(storage, now, id, a).res = "SignerChangeExpired")
                  <=> late
        /\ \A checks \in BOOLEAN :
              (execute_signer_change(storage, now, checks, id).res
                   = "SignerChangeExpired") <=> late

C29_OnlyOpenExpire(id) ==
    /\ (\E a \in Ids, ok \in BOOLEAN :
           \/ approve_proposal(storage, now, id, a).res = "ProposalExpired"
           \/ execute_proposal(storage, now, id, ok).res = "ProposalExpired")
       => id \in DOMAIN storage.proposals \ storage.executed
    /\ (\E a \in Ids, checks \in BOOLEAN :
           \/ approve_signer_change(storage, now, id, a).res = "SignerChangeExpired"
           \/ execute_signer_change(storage, now, checks, id).res
                  = "SignerChangeExpired")
       => id \in DOMAIN storage.scProposals \ storage.scExecuted

C29_DeadlineInclusive ==
    /\ \A id \in DOMAIN storage.proposals \ storage.executed : C29_Transfer(id)
    /\ \A id \in DOMAIN storage.scProposals \ storage.scExecuted : C29_Change(id)
    /\ \A id \in CallIds(MaxProposals) : C29_OnlyOpenExpire(id)

C29_Witness ==
    \E id \in DOMAIN storage.proposals \ storage.executed :
        /\ now > 0
        /\ now = storage.proposals[id].expires_at
        /\ execute_proposal(storage, now, id, TRUE).res = "Ok"
        /\ \E a \in storage.signers : approve_proposal(storage, now, id, a).res = "Ok"

(* C30: revoke_approval has no expiry guard.  On an unexecuted transfer    *)
(* proposal with now > expires_at a current signer who has an approval     *)
(* entry can still revoke it: the call succeeds and the entry is removed;  *)
(* revoke_approval never fails with ProposalExpired.                       *)
C30_RevokeAfterExpiry ==
    /\ \A id \in DOMAIN storage.proposals \ storage.executed :
          now > storage.proposals[id].expires_at =>
              \A s \in storage.signers \cap Approvers(storage.approvals[id]) :
                  LET r == revoke_approval(storage, id, s)
                  IN  /\ r.res = "Ok"
                      /\ s \notin Approvers(get_proposal_approvals(r.st, id).value)
    /\ \A id \in CallIds(MaxProposals), s \in Ids :
          revoke_approval(storage, id, s).res # "ProposalExpired"

C30_Witness ==
    \E id \in DOMAIN storage.proposals \ storage.executed :
        /\ now > storage.proposals[id].expires_at
        /\ "s2" \in storage.signers \cap Approvers(storage.approvals[id])
        /\ revoke_approval(storage, id, "s2").res = "Ok"

(* C32: on an initialized contract, a create_proposal call that violates   *)
(* several preconditions at once fails with the kind of the first one      *)
(* violated in the order proposer not a signer (UnknownSigner), amount     *)
(* <= 0 (InvalidProposal), ttl outside [3600, 2592000]                     *)
(* (InvalidExpiryTime).                                                    *)
CreateKindListed(st, proposer, amount, ttl) ==
    IF proposer \notin st.signers THEN "UnknownSigner"
    ELSE IF amount <= 0 THEN "InvalidProposal"
    ELSE IF ~TtlInRange(ttl) THEN "InvalidExpiryTime"
    ELSE "Ok"

C32_CreateRejectsInListedOrder ==
    storage.initialized =>
        \A p \in Ids, a \in Amounts, ttl \in Ttls :
            create_proposal(storage, now, p, Token, Recipient, a, Reason, ttl).res
                = CreateKindListed(storage, p, a, ttl)

(* C32 (amended): on an initialized contract, a create_proposal call that  *)
(* violates several preconditions at once fails with the kind of the first *)
(* one violated in the order ttl outside [3600, 2592000]                   *)
(* (InvalidExpiryTime), proposer not a signer (UnknownSigner), amount <= 0 *)
(* (InvalidProposal), and leaves the storage as it was.                    *)
CreateKindChecked(st, proposer, amount, ttl) ==
    IF ~TtlInRange(ttl) THEN "InvalidExpiryTime"
    ELSE IF proposer \notin st.signers THEN "UnknownSigner"
    ELSE IF amount <= 0 THEN "InvalidProposal"
    ELSE "Ok"

C32_CreateRejectsInCheckedOrder ==
    storage.initialized =>
        \A p \in Ids, a \in Amounts, ttl \in Ttls :
            LET r == create_proposal(storage, now, p, Token, Recipient, a, Reason, ttl)
            IN  /\ r.res = CreateKindChecked(storage, p, a, ttl)
                /\ r.res # "Ok" => r.st = storage

C32_Witness ==
    /\ storage.initialized
    /\ "s1" \in storage.signers
    /\ "s3" \notin storage.signers
    /\ create_proposal(storage, now, "s3", Token, Recipient, -1, Reason, 3599)
           = Fail(storage, "InvalidExpiryTime")
    /\ create_proposal(storage, now, "s3", Token, Recipient, -1, Reason, 3600)
           = Fail(storage, "UnknownSigner")
    /\ create_proposal(storage, now, "s1", Token, Recipient, 0, Reason, 2592001)
           = Fail(storage, "InvalidExpiryTime")
    /\ create_proposal(storage, now, "s1", Token, Recipient, 0, Reason, 3600)
           = Fail(storage, "InvalidProposal")

(* C31: a stored proposal record is immutable but for its executed flag:   *)
(* no step removes a record or changes its id, proposer, payload,          *)
(* created_at or expires_at; executed only goes from false to true, in a   *)
(* step that is a successful execute of that id (one transfer made and the *)
(* nonce advanced, or the signer-change marker set); and no approve or     *)
(* revoke call, in any reachable state, rewrites a proposal record.        *)
Body(proposal) == [proposal EXCEPT !.executed = FALSE]

C31_Kept(old, new, id, executes) ==
    /\ id \in DOMAIN new
    /\ Body(new[id]) = Body(old[id])
    /\ new[id].executed # old[id].executed =>
           (~old[id].executed /\ new[id].executed /\ executes)

C31_Step ==
    /\ \A id \in DOMAIN storage.proposals :
           C31_Kept(storage.proposals, storage'.proposals, id,
                    /\ transfers'[id] = transfers[id] + 1
                    /\ storage'.nonce = storage.nonce + 1
                    /\ id \in storage'.executed \ storage.executed)
    /\ \A id \in DOMAIN storage.scProposals :
           C31_Kept(storage.scProposals, storage'.scProposals, id,
                    id \in storage'.scExecuted \ storage.scExecuted)

C31_State ==
    \A id \in CallIds(MaxProposals), signer \in Ids :
        /\ approve_proposal(storage, now, id, signer).st.proposals
               = storage.proposals
        /\ revoke_approval(storage, id, signer).st.proposals
               = storage.proposals
        /\ approve_signer_change(storage, now, id, signer).st.scProposals
               = storage.scProposals

C31_ProposalBodyImmutable == []C31_State /\ [][C31_Step]_vars

C31_Witness ==
    /\ 1 \in DOMAIN storage.proposals
    /\ storage.proposals[1].executed
    /\ storage.proposals[1].id = 1
    /\ storage.proposals[1].amount = 1000
    /\ storage.proposals[1].expires_at = storage.proposals[1].created_at + 3600
    /\ now > storage.proposals[1].created_at
    /\ Len(storage.approvals[1]) = 2
    /\ storage.proposals[1].proposer = storage.approvals[1][2].signer

====
